---------------------------- MODULE Spec2Model ----------------------------
(***************************************************************************)
(* Model of dashboard_inovasi_final_fix.py: the Streamlit page run of the  *)
(* "Dashboard Inovasi Daerah".  One page run executes the script from top  *)
(* to bottom: load_data (cached helper), the sidebar widgets, the empty    *)
(* check, apply_filters, then the views.                                   *)
(*                                                                         *)
(* Text is modelled as a sequence of one-character strings, so that        *)
(* lower-casing, title-casing, trimming, splitting and substring search    *)
(* are computed character by character, as Python computes them.           *)
(* A cell of a DataFrame is a tagged record: Null (NaN/NaT/None), Num(n),  *)
(* Str(s) or Date(d).  A DataFrame is [cols, rows]: the set of column      *)
(* names and the sequence of rows, each row [id, c] with id the pandas     *)
(* index label and c the function column name -> cell.                     *)
(***************************************************************************)
EXTENDS Integers, Sequences, FiniteSets, TLC

VARIABLES
    source,            \* the spreadsheet behind uploaded_file / default_path
    pc,                \* position of the page run in the script
    df,                \* result of load_data (line 134)
    notice,            \* the st.error / st.warning load_data reported, or "none"
    min_kematangan,    \* st.number_input, line 140
    jenis_selected,    \* st.multiselect, line 149
    opd_selected,      \* st.multiselect, line 160
    kategori_selected, \* st.multiselect, line 172
    urusan_selected,   \* st.multiselect, line 182
    df_filtered,       \* result of apply_filters (line 247), rebound at line 339
    df_again,          \* load_data's normalization steps run on df once more
    raised,            \* the exception that ended the run, or "none"
    map_jatim,         \* the gazetteer load_map_data returns (line 600)
    point,             \* a latitude/longitude pair given to get_nearest_area
    nearest,           \* what get_nearest_area returned for it
    df_geo,            \* the region view's records with 'Daerah' (line 634)
    selected_daerah,   \* st.selectbox, line 640
    search_keyword,    \* st.text_input, line 746
    daerah_selected,   \* st.selectbox, line 755, or 'All'
    map_df,            \* the records on the map (line 780)
    selected_inovasi,  \* st.multiselect, line 953, in the order selected
    max_comb,          \* st.slider, line 961
    sent,              \* the combinations a text-generation request was sent for
    gantt_plot_df,     \* the timeline's records (line 1040)
    df_display         \* the table shown and exported (lines 1077-1086)

\* the state of the views that follow apply_filters
viewVars == <<map_jatim, point, nearest, df_geo, selected_daerah, search_keyword,
              daerah_selected, map_df, selected_inovasi, max_comb, sent,
              gantt_plot_df, df_display>>

vars == <<source, pc, df, notice, min_kematangan, jenis_selected, opd_selected,
          kategori_selected, urusan_selected, df_filtered, df_again, raised,
          viewVars>>

---------------------------------------------------------------------------
(* Bounds of the model.                                                    *)

MaxRows == 3

MaxTextLen == 3

\* the largest minimum-maturity the user enters
MaxThreshold == 2

\* how many of the four multiselects the user changes from their default
MaxChanged == 2

\* the longest gazetteer get_nearest_area is given
MaxGaz == 2

\* the rows of the sheets the views are run on
MaxViewRows == 2

\* the titles of the sheet the collaboration section is run on
MaxTitles == 6

---------------------------------------------------------------------------
(* Python str operations, character by character.                          *)

LowerChars == <<"a","b","c","d","e","f","g","h","i","j","k","l","m",
                "n","o","p","q","r","s","t","u","v","w","x","y","z">>

UpperChars == <<"A","B","C","D","E","F","G","H","I","J","K","L","M",
                "N","O","P","Q","R","S","T","U","V","W","X","Y","Z">>

Digits == <<"0","1","2","3","4","5","6","7","8","9">>

IndexIn(seq, ch) == IF \E i \in 1..Len(seq) : seq[i] = ch
                    THEN CHOOSE i \in 1..Len(seq) : seq[i] = ch
                    ELSE 0

IsLower(ch) == IndexIn(LowerChars, ch) # 0

IsUpper(ch) == IndexIn(UpperChars, ch) # 0

IsCased(ch) == IsLower(ch) \/ IsUpper(ch)

IsDigit(ch) == IndexIn(Digits, ch) # 0

IsSpace(ch) == ch = " "

LowerChar(ch) == IF IsUpper(ch) THEN LowerChars[IndexIn(UpperChars, ch)] ELSE ch

UpperChar(ch) == IF IsLower(ch) THEN UpperChars[IndexIn(LowerChars, ch)] ELSE ch

\* str.lower()
StrLower(s) == [i \in 1..Len(s) |-> LowerChar(s[i])]

\* str.upper()
StrUpper(s) == [i \in 1..Len(s) |-> UpperChar(s[i])]

\* str.title(): a cased character is upper-cased when the character before
\* it is not cased (or there is none), lower-cased otherwise.
StrTitle(s) ==
    [i \in 1..Len(s) |->
        IF i > 1 /\ IsCased(s[i-1]) THEN LowerChar(s[i]) ELSE UpperChar(s[i])]

\* str.strip()
StrStrip(s) ==
    IF \A i \in 1..Len(s) : IsSpace(s[i])
    THEN <<>>
    ELSE LET first == CHOOSE i \in 1..Len(s) :
                          ~IsSpace(s[i]) /\ \A j \in 1..(i-1) : IsSpace(s[j])
             last  == CHOOSE i \in 1..Len(s) :
                          ~IsSpace(s[i]) /\ \A j \in (i+1)..Len(s) : IsSpace(s[j])
         IN  SubSeq(s, first, last)

\* sub in s
StrContains(s, sub) ==
    \E i \in 1..(Len(s) - Len(sub) + 1) : SubSeq(s, i, i + Len(sub) - 1) = sub

\* position of the first occurrence of the character ch in s, 0 if none
FirstIndex(s, ch) ==
    IF \E i \in 1..Len(s) : s[i] = ch
    THEN CHOOSE i \in 1..Len(s) : s[i] = ch /\ \A j \in 1..(i-1) : s[j] # ch
    ELSE 0

\* s.split(ch)[0]
BeforeFirst(s, ch) ==
    IF FirstIndex(s, ch) = 0 THEN s ELSE SubSeq(s, 1, FirstIndex(s, ch) - 1)

\* s.split(ch, 1)[1] when the separator occurs
AfterFirst(s, ch) == SubSeq(s, FirstIndex(s, ch) + 1, Len(s))

\* the characters of the model in code-point order
CharOrder ==
    <<" ", "(", ")", ",", "-", ".", "/">> \o Digits \o UpperChars \o LowerChars

\* a < b for two strings
StrLess(a, b) ==
    \E k \in 1..(Len(b)) :
        /\ \A j \in 1..(k-1) : j <= Len(a) /\ a[j] = b[j]
        /\ \/ k = Len(a) + 1
           \/ k <= Len(a) /\ IndexIn(CharOrder, a[k]) < IndexIn(CharOrder, b[k])

RECURSIVE SortedTexts(_)
\* sorted(S) for a set of strings
SortedTexts(S) ==
    IF S = {} THEN <<>>
    ELSE LET least == CHOOSE x \in S : \A y \in S \ {x} : StrLess(x, y)
         IN  <<least>> \o SortedTexts(S \ {least})

---------------------------------------------------------------------------
(* Cells.                                                                  *)

Null == [t |-> "null"]

Num(n) == [t |-> "num", n |-> n]

Str(s) == [t |-> "str", s |-> s]

Date(d) == [t |-> "date", d |-> d]

\* pd.isna / Series.isna
IsNull(cell) == cell.t = "null"


\* astype(str) of a cell of an object column: NaN prints as "nan", text is
\* kept as it is.  (Only text and empty cells occur in the columns this is
\* applied to within the inputs of the model.)
AsStr(cell) == IF IsNull(cell) THEN <<"n","a","n">> ELSE cell.s

RECURSIVE DigitsValue(_)
\* the value of a non-empty sequence of decimal digits
DigitsValue(s) ==
    IF Len(s) = 0 THEN 0
    ELSE 10 * DigitsValue(SubSeq(s, 1, Len(s) - 1)) + (IndexIn(Digits, s[Len(s)]) - 1)

AllDigits(s) == Len(s) > 0 /\ \A i \in 1..Len(s) : IsDigit(s[i])

\* pd.to_numeric(text, errors='coerce') for one text: an optionally signed
\* run of digits is its value, anything else (the empty text included) NaN.
\* (Decimal points, exponents and padding blanks are outside the inputs.)
ParseNumber(s) ==
    IF AllDigits(s) THEN Num(DigitsValue(s))
    ELSE IF Len(s) > 1 /\ s[1] = "-" /\ AllDigits(Tail(s)) THEN Num(0 - DigitsValue(Tail(s)))
    ELSE Null

\* pd.to_numeric(cell, errors='coerce')
ToNumeric(cell) ==
    IF cell.t = "num" THEN cell
    ELSE IF cell.t = "str" THEN ParseNumber(cell.s)
    ELSE Null

\* days before the first of each month of 2024
DaysBefore == <<0, 31, 60, 91, 121, 152, 182, 213, 244, 274, 305, 335, 366>>

DaysIn(m) == DaysBefore[m + 1] - DaysBefore[m]

\* the parts of a text between "/" separators
RECURSIVE SplitSlash(_)
SplitSlash(s) ==
    IF FirstIndex(s, "/") = 0 THEN <<s>>
    ELSE <<BeforeFirst(s, "/")>> \o SplitSlash(AfterFirst(s, "/"))

\* pd.to_datetime(text, errors='coerce', dayfirst=True) for one text
\* "d/m/2024": the first number is the day.  A date is its day number in
\* 2024.  Anything else is NaT.  (Inputs keep the day <= 12, where every
\* pandas version reads the text day first.)
ParseDate(s) ==
    LET p == SplitSlash(s) IN
    IF Len(p) = 3 /\ AllDigits(p[1]) /\ AllDigits(p[2]) /\ p[3] = <<"2","0","2","4">>
    THEN LET d == DigitsValue(p[1])
             m == DigitsValue(p[2])
         IN  IF m \in 1..12 /\ d >= 1 /\ d <= DaysIn(m)
             THEN Date(DaysBefore[m] + d)
             ELSE Null
    ELSE Null

\* ToDatetime that parses a date again from its ISO text with dayfirst=True,
\* which exchanges day and month where both readings are dates
ToDatetime_reparse(cell) ==
    IF cell.t = "date"
    THEN LET m == CHOOSE k \in 1..12 : DaysBefore[k] < cell.d /\ cell.d <= DaysBefore[k+1]
             d == cell.d - DaysBefore[m]
         IN  IF d <= 12 THEN Date(DaysBefore[d] + m) ELSE cell
    ELSE IF cell.t = "str" THEN ParseDate(cell.s)
    ELSE Null

\* pd.to_datetime(cell, errors='coerce', dayfirst=True)
ToDatetime(cell) ==
    IF cell.t = "date" THEN cell
    ELSE IF cell.t = "str" THEN ParseDate(cell.s)
    ELSE Null

---------------------------------------------------------------------------
(* DataFrames.                                                             *)

\* pd.DataFrame()
EmptyFrame == [cols |-> {}, rows |-> <<>>]

\* DataFrame.empty
IsEmpty(frame) == Len(frame.rows) = 0 \/ frame.cols = {}

\* frame[mask]: the rows at the positions where the mask is true, in order
KeepRows(rows, mask) ==
    LET F[i \in 0..Len(rows)] ==
            IF i = 0 THEN <<>>
            ELSE IF mask[i] THEN Append(F[i-1], rows[i]) ELSE F[i-1]
    IN  F[Len(rows)]

\* frame[col] = series: the column col set (added when absent) to the
\* values of the series, row by row
SetCol(frame, col, series) ==
    [cols |-> frame.cols \cup {col},
     rows |-> [i \in 1..Len(frame.rows) |->
                 [id |-> frame.rows[i].id,
                  c  |-> [k \in frame.cols \cup {col} |->
                            IF k = col THEN series[i] ELSE frame.rows[i].c[k]]]]]

\* to_numeric of a column when it is present: lines 48-49, 64-67
NumericCol(frame, col) ==
    IF col \in frame.cols
    THEN SetCol(frame, col, [i \in 1..Len(frame.rows) |-> ToNumeric(frame.rows[i].c[col])])
    ELSE frame

\* to_datetime of a column when it is present: lines 54-55
DatetimeCol(frame, col) ==
    IF col \in frame.cols
    THEN SetCol(frame, col, [i \in 1..Len(frame.rows) |-> ToDatetime(frame.rows[i].c[col])])
    ELSE frame

Ids(frame) == {frame.rows[i].id : i \in 1..Len(frame.rows)}

RowSet(frame) == {frame.rows[i] : i \in 1..Len(frame.rows)}

---------------------------------------------------------------------------
(* load_data, lines 17-91.                                                 *)

T_nan == <<"n","a","n">>

T_NaN == <<"N","a","N">>

T_None == <<"N","o","n","e">>

T_Lainnya == <<"L","a","i","n","n","y","a">>

T_DinasPendidikan ==
    <<"D","i","n","a","s"," ","P","e","n","d","i","d","i","k","a","n">>

T_AdminIGA2025 == <<"A","d","m","i","n"," ","I","G","A"," ","2","0","2","5">>

\* "iga2025.provinsi.jawa.timur", line 83
T_iga2025 == <<"i","g","a","2","0","2","5",".","p","r","o","v","i","n","s","i",
               ".","j","a","w","a",".","t","i","m","u","r">>

T_All == <<"A","l","l">>

\* line 52
date_cols == {"Tanggal Input", "Tanggal Penerapan", "Tanggal Pengembangan"}

\* line 70
cat_cols == {"Jenis", "Bentuk Inovasi", "Admin OPD", "Kategori Admin OPD",
             "Urusan Utama", "Asta Cipta", "Daerah"}

\* drop_duplicates(keep=False): every row that has an equal is dropped
drop_duplicates_keep_none(frame) ==
    [cols |-> frame.cols,
     rows |-> KeepRows(frame.rows,
                 [i \in 1..Len(frame.rows) |->
                     \A j \in 1..Len(frame.rows) :
                         j # i => frame.rows[j].c # frame.rows[i].c])]

\* line 40: df.drop_duplicates() keeps the first of the rows that are equal
\* in every column; the kept rows keep their index labels
drop_duplicates(frame) ==
    [cols |-> frame.cols,
     rows |-> KeepRows(frame.rows,
                 [i \in 1..Len(frame.rows) |->
                     \A j \in 1..(i-1) : frame.rows[j].c # frame.rows[i].c])]

\* lines 48-49
CoerceKematangan(frame) == NumericCol(frame, "Kematangan")

\* lines 52-55
CoerceDates(frame) ==
    DatetimeCol(DatetimeCol(DatetimeCol(frame, "Tanggal Input"),
                            "Tanggal Penerapan"),
                "Tanggal Pengembangan")

\* line 59: the text of a 'Koordinat' cell that str.split works on
KoordinatText(row) == AsStr(row.c["Koordinat"])

\* lines 59-61: str.split(',', n=1, expand=True) has a column 1 only when
\* some cell holds a comma; coords[1] raises KeyError otherwise
SplitRaises(frame) ==
    /\ "Koordinat" \in frame.cols
    /\ \A i \in 1..Len(frame.rows) : FirstIndex(KoordinatText(frame.rows[i]), ",") = 0

\* line 60: coords[0], coerced
SplitLat(row) == ParseNumber(BeforeFirst(KoordinatText(row), ","))

\* position of the last occurrence of the character ch in s, 0 if none
LastIndex(s, ch) ==
    IF \E i \in 1..Len(s) : s[i] = ch
    THEN CHOOSE i \in 1..Len(s) : s[i] = ch /\ \A j \in (i+1)..Len(s) : s[j] # ch
    ELSE 0

\* SplitLon with str.rsplit(',', n=1): the text after the last comma
SplitLon_rsplit(row) ==
    IF LastIndex(KoordinatText(row), ",") = 0 THEN Null
    ELSE ParseNumber(SubSeq(KoordinatText(row),
                            LastIndex(KoordinatText(row), ",") + 1,
                            Len(KoordinatText(row))))

\* line 61: coords[1], coerced; None (no comma in this cell) coerces to NaN
SplitLon(row) ==
    IF FirstIndex(KoordinatText(row), ",") = 0 THEN Null
    ELSE ParseNumber(AfterFirst(KoordinatText(row), ","))

\* lines 58-67
SplitCoordinates(frame) ==
    IF "Koordinat" \in frame.cols
    THEN SetCol(SetCol(frame, "lat", [i \in 1..Len(frame.rows) |-> SplitLat(frame.rows[i])]),
                "lon", [i \in 1..Len(frame.rows) |-> SplitLon(frame.rows[i])])
    ELSE NumericCol(NumericCol(frame, "lat"), "lon")

\* NormalizeText with 'None' left out of the replaced tokens
NormalizeText_two_tokens(cell) ==
    IF AsStr(cell) \in {T_nan, T_NaN} THEN Null ELSE Str(AsStr(cell))

\* line 73: astype(str).replace(['nan', 'NaN', 'None'], np.nan)
NormalizeText(cell) ==
    IF AsStr(cell) \in {T_nan, T_NaN, T_None} THEN Null ELSE Str(AsStr(cell))

\* lines 72-73, for one column
NormalizeCat(frame, col) ==
    IF col \in frame.cols
    THEN SetCol(frame, col, [i \in 1..Len(frame.rows) |-> NormalizeText(frame.rows[i].c[col])])
    ELSE frame

\* lines 71-73, over the columns of cat_cols still to do
RECURSIVE NormalizeCats(_, _)
NormalizeCats(frame, todo) ==
    IF todo = {} THEN frame
    ELSE LET col == CHOOSE k \in todo : TRUE
         IN  NormalizeCats(NormalizeCat(frame, col), todo \ {col})

\* categorize_admin with the sentinel tested before the school keywords
categorize_admin_sentinel_first(admin) ==
    IF IsNull(admin) THEN Str(T_Lainnya)
    ELSE LET admin_lower == StrLower(admin.s) IN
         IF StrContains(admin_lower, T_iga2025)
         THEN Str(T_AdminIGA2025)
         ELSE IF \E x \in {<<"s","m","a">>, <<"s","m","k">>, <<"s","l","b">>} :
                StrContains(admin_lower, x)
         THEN Str(T_DinasPendidikan)
         ELSE Str(StrTitle(StrStrip(BeforeFirst(admin.s, "."))))

\* lines 77-86
categorize_admin(admin) ==
    IF IsNull(admin) THEN Str(T_Lainnya)
    ELSE LET admin_lower == StrLower(admin.s) IN
         IF \E x \in {<<"s","m","a">>, <<"s","m","k">>, <<"s","l","b">>} :
                StrContains(admin_lower, x)
         THEN Str(T_DinasPendidikan)
         ELSE IF StrContains(admin_lower, T_iga2025)
         THEN Str(T_AdminIGA2025)
         ELSE Str(StrTitle(StrStrip(BeforeFirst(admin.s, "."))))

\* lines 76-88
GroupAdmin(frame) ==
    IF "Admin OPD" \in frame.cols
    THEN SetCol(frame, "Admin OPD Grouped",
                [i \in 1..Len(frame.rows) |-> categorize_admin(frame.rows[i].c["Admin OPD"])])
    ELSE frame

\* lines 38-88, for a table on which no step raises
NormalizeSteps(frame) ==
    GroupAdmin(NormalizeCats(SplitCoordinates(CoerceDates(CoerceKematangan(
        drop_duplicates(frame)))), cat_cols))

\* lines 19-25: the table pd.read_excel returns, rows labelled 0, 1, ...
\* Column names are the names line 36 has stripped.
ReadExcel(src) ==
    [cols |-> src.cols,
     rows |-> [i \in 1..Len(src.cells) |-> [id |-> i - 1, c |-> src.cells[i]]]]

\* load_data without the try/except of lines 19-28: an unreadable source
\* raises
load_data_no_except(src) ==
    IF ~src.readable
    THEN [raised |-> TRUE, notice |-> "none", frame |-> EmptyFrame]
    ELSE IF IsEmpty(ReadExcel(src))
    THEN [raised |-> FALSE, notice |-> "warning", frame |-> EmptyFrame]
    ELSE IF SplitRaises(drop_duplicates(ReadExcel(src)))
    THEN [raised |-> TRUE, notice |-> "none", frame |-> EmptyFrame]
    ELSE [raised |-> FALSE, notice |-> "none", frame |-> NormalizeSteps(ReadExcel(src))]

\* lines 17-91: what load_data returns, the notice it reports, and whether
\* an exception leaves it
load_data(src) ==
    IF ~src.readable
    THEN [raised |-> FALSE, notice |-> "error", frame |-> EmptyFrame]
    ELSE IF IsEmpty(ReadExcel(src))
    THEN [raised |-> FALSE, notice |-> "warning", frame |-> EmptyFrame]
    ELSE IF SplitRaises(drop_duplicates(ReadExcel(src)))
    THEN [raised |-> TRUE, notice |-> "none", frame |-> EmptyFrame]
    ELSE [raised |-> FALSE, notice |-> "none", frame |-> NormalizeSteps(ReadExcel(src))]

---------------------------------------------------------------------------
(* apply_filters, lines 201-243.                                           *)

\* a multiselect dimension filters when something is selected and 'All' is
\* not among it: "sel and 'All' not in sel"
Active(selected) == selected # {} /\ T_All \notin selected

\* Series.isin(selected): a missing value is in no selection
IsIn(cell, selected) == cell.t = "str" /\ cell.s \in selected

\* frame[frame[col].isin(selected)]
KeepIsIn(frame, col, selected) ==
    LET Keep(row) == IsIn(row.c[col], selected)
    IN  [cols |-> frame.cols, rows |-> SelectSeq(frame.rows, Keep)]

\* FilterKematangan with ">" for ">="
FilterKematangan_strict(frame, min) ==
    IF "Kematangan" \in frame.cols
    THEN LET Keep(row) == /\ row.c["Kematangan"].t = "num"
                          /\ row.c["Kematangan"].n > min
         IN  [cols |-> frame.cols, rows |-> SelectSeq(frame.rows, Keep)]
    ELSE frame

\* FilterKematangan that first stores fillna(min) into the column
FilterKematangan_fillna(frame, min) ==
    IF "Kematangan" \in frame.cols
    THEN LET filled == SetCol(frame, "Kematangan",
                           [i \in 1..Len(frame.rows) |->
                               IF IsNull(frame.rows[i].c["Kematangan"])
                               THEN Num(min)
                               ELSE frame.rows[i].c["Kematangan"]])
             Keep(row) == row.c["Kematangan"].n >= min
         IN  [cols |-> filled.cols, rows |-> SelectSeq(filled.rows, Keep)]
    ELSE frame

\* lines 214-215: NaN >= min_kematangan is False
FilterKematangan(frame, min) ==
    IF "Kematangan" \in frame.cols
    THEN LET Keep(row) == /\ row.c["Kematangan"].t = "num"
                          /\ row.c["Kematangan"].n >= min
         IN  [cols |-> frame.cols, rows |-> SelectSeq(frame.rows, Keep)]
    ELSE frame

\* FilterJenis with the mask taken from the unfiltered df and applied by
\* position: df_filtered[df['Jenis'].isin(jenis_selected).values[:len(df_filtered)]]
FilterJenis_positional(frame, selected) ==
    IF "Jenis" \in frame.cols /\ Active(selected)
    THEN [cols |-> frame.cols,
          rows |-> KeepRows(frame.rows,
                      [i \in 1..Len(frame.rows) |-> IsIn(df.rows[i].c["Jenis"], selected)])]
    ELSE frame

\* lines 218-219
FilterJenis(frame, selected) ==
    IF "Jenis" \in frame.cols /\ Active(selected)
    THEN KeepIsIn(frame, "Jenis", selected)
    ELSE frame

\* lines 222-223
FilterOpd(frame, selected) ==
    IF "Admin OPD Grouped" \in frame.cols /\ Active(selected)
    THEN KeepIsIn(frame, "Admin OPD Grouped", selected)
    ELSE frame

\* lines 226-227
FilterKategori(frame, selected) ==
    IF Active(selected) /\ "Kategori Admin OPD" \in frame.cols
    THEN KeepIsIn(frame, "Kategori Admin OPD", selected)
    ELSE frame

\* lines 230-231
FilterUrusan(frame, selected) ==
    IF Active(selected) /\ "Urusan Utama" \in frame.cols
    THEN KeepIsIn(frame, "Urusan Utama", selected)
    ELSE frame

\* lines 234-241: the two steps that read script globals.  Each is guarded
\* by "<name> in globals()".  search_astacipta is assigned nowhere in the
\* script; daerah_col and daerah_selected are first assigned at lines
\* 668-752, after the call at line 247, and every page run executes the
\* script in a fresh namespace: at the call neither guard holds and the
\* frame passes through both steps unchanged.
FilterGlobals(frame) == frame

\* lines 211-243
apply_filters(frame, min, jenis, opd, kategori, urusan) ==
    FilterGlobals(
        FilterUrusan(
            FilterKategori(
                FilterOpd(
                    FilterJenis(
                        FilterKematangan(frame, min),
                        jenis),
                    opd),
                kategori),
            urusan))

---------------------------------------------------------------------------
(* Region resolution, lines 594-634.                                       *)

\* line 620: threshold=0.01 degrees.  The latitudes and longitudes of page
\* runs and gazetteers are whole numbers of thousandths of a degree, so
\* that distances below, at and above the threshold all occur.
threshold == 10

\* line 626: "Wilayah Jawa Timur (tidak teridentifikasi spesifik)"
T_Wilayah ==
    <<"W","i","l","a","y","a","h"," ","J","a","w","a"," ","T","i","m","u","r"," ",
      "(","t","i","d","a","k"," ","t","e","r","i","d","e","n","t","i","f","i","k",
      "a","s","i"," ","s","p","e","s","i","f","i","k",")">>

\* abs()
Abs(n) == IF n < 0 THEN 0 - n ELSE n

\* one row of map_jatim.csv (columns lower-cased at line 597)
GazEntry(name, lat, lon) == [kabupaten |-> name, lat |-> lat, lon |-> lon]

\* line 621: diff, by position in df_ref
Diff(lat, lon, df_ref) ==
    [i \in 1..Len(df_ref) |-> Abs(df_ref[i].lat - lat) + Abs(df_ref[i].lon - lon)]

\* idxmin that returns the last position of the least value
IdxMin_last(diff) ==
    CHOOSE i \in 1..Len(diff) :
        /\ \A j \in 1..Len(diff) : diff[i] <= diff[j]
        /\ \A j \in (i+1)..Len(diff) : diff[j] # diff[i]

\* line 622: diff.idxmin(), the first position of the least value
IdxMin(diff) ==
    CHOOSE i \in 1..Len(diff) :
        /\ \A j \in 1..Len(diff) : diff[i] <= diff[j]
        /\ \A j \in 1..(i-1) : diff[j] # diff[i]

\* lines 620-626
get_nearest_area(lat, lon, df_ref) ==
    LET diff == Diff(lat, lon, df_ref)
        idx  == IdxMin(diff)
    IN  IF diff[idx] < threshold
        THEN df_ref[idx].kabupaten
        ELSE Str(T_Wilayah)

\* lines 629-632, on a frame with rows: a copy of the frame with 'Daerah'
\* set row by row
map_coordinates_to_region(frame, df_ref) ==
    SetCol(frame, "Daerah",
           [i \in 1..Len(frame.rows) |->
               get_nearest_area(frame.rows[i].c["lat"].n, frame.rows[i].c["lon"].n, df_ref)])

---------------------------------------------------------------------------
(* The views, lines 257-1094.                                              *)

T_AdminIGA == <<"A","d","m","i","n"," ","I","G","A">>

\* 'admin.jawa.timur', line 318
T_admin_jawa_timur ==
    <<"a","d","m","i","n",".","j","a","w","a",".","t","i","m","u","r">>

\* '(Jatimprov.', line 326
T_Jatimprov == <<"(","J","a","t","i","m","p","r","o","v",".">>

\* '(Iga2024.', line 330
T_Iga2024 == <<"(","I","g","a","2","0","2","4",".">>

\* lines 314-321; str(x) of a missing value is 'nan'
kategori_mapping(x) ==
    LET x_str == AsStr(x) IN
    IF StrUpper(x_str) \in {<<"S","M","A">>, <<"S","M","K">>, <<"S","L","B">>}
    THEN Str(T_DinasPendidikan)
    ELSE IF StrLower(x_str) = T_admin_jawa_timur
    THEN Str(T_AdminIGA)
    ELSE Str(StrTitle(x_str))

\* re.search(r'\(<prefix>([^)]+)\)', s) for a prefix that opens with "(":
\* the leftmost place where the prefix is followed by one or more characters
\* other than ")" and then by ")", and the characters between
RegexInner(s, prefix) ==
    LET close(i) == CHOOSE q \in (i + Len(prefix))..Len(s) :
                        s[q] = ")" /\ \A k \in (i + Len(prefix))..(q-1) : s[k] # ")"
        starts == {i \in 1..(Len(s) - Len(prefix) + 1) :
                      /\ SubSeq(s, i, i + Len(prefix) - 1) = prefix
                      /\ \E q \in (i + Len(prefix) + 1)..Len(s) :
                            s[q] = ")" /\ \A k \in (i + Len(prefix))..(q-1) : s[k] # ")"}
    IN  IF starts = {}
        THEN [found |-> FALSE, inner |-> <<>>]
        ELSE LET i == CHOOSE a \in starts : \A b \in starts : a <= b
             IN  [found |-> TRUE, inner |-> SubSeq(s, i + Len(prefix), close(i) - 1)]

\* s.replace('.', ' ')
ReplaceDots(s) == [i \in 1..Len(s) |-> IF s[i] = "." THEN " " ELSE s[i]]

\* lines 324-336
nama_pendek(x) ==
    LET x_str == AsStr(x)
        jatimprov == RegexInner(x_str, T_Jatimprov)
        iga2024 == RegexInner(x_str, T_Iga2024)
    IN  IF StrContains(x_str, T_Jatimprov) /\ jatimprov.found
        THEN Str(StrTitle(ReplaceDots(jatimprov.inner)))
        ELSE IF ~StrContains(x_str, T_Jatimprov) /\ StrContains(x_str, T_Iga2024)
                /\ iga2024.found
        THEN Str(StrTitle(ReplaceDots(iga2024.inner)))
        ELSE IF FirstIndex(x_str, "(") # 0
        THEN Str(StrTitle(StrStrip(BeforeFirst(x_str, "("))))
        ELSE Str(StrTitle(x_str))

\* lines 309, 339-344: df_filtered.assign(...), a new frame in which
\* 'Kategori Admin OPD' is set (over the sheet's own column when it has one)
\* and 'Nama Pendek OPD' is added
AssignCategory(frame) ==
    IF "Admin OPD" \in frame.cols
    THEN SetCol(SetCol(frame, "Kategori Admin OPD",
                       [i \in 1..Len(frame.rows) |->
                           kategori_mapping(frame.rows[i].c["Admin OPD"])]),
                "Nama Pendek OPD",
                [i \in 1..Len(frame.rows) |-> nama_pendek(frame.rows[i].c["Admin OPD"])])
    ELSE frame

\* frame.dropna(subset=cols)
DropNa(frame, cols) ==
    LET Keep(row) == \A col \in cols : ~IsNull(row.c[col])
    IN  [cols |-> frame.cols, rows |-> SelectSeq(frame.rows, Keep)]

\* lines 605-610: the column whose lower-cased name contains 'lat', and the
\* one whose name contains 'lon' or 'lng'; '' stands for None.  Of the
\* column names of the sheets here only 'lat' and 'lon' contain them.
lat_col(frame) == IF "lat" \in frame.cols THEN "lat" ELSE ""

lon_col(frame) == IF "lon" \in frame.cols THEN "lon" ELSE ""

\* line 740
daerah_candidates == <<"Daerah", "Kabupaten/Kota", "Provinsi", "Nama Daerah">>

\* lines 739-743: the first candidate among the columns; '' stands for None
daerah_col(frame) ==
    IF \E i \in 1..Len(daerah_candidates) : daerah_candidates[i] \in frame.cols
    THEN daerah_candidates[CHOOSE i \in 1..Len(daerah_candidates) :
                              /\ daerah_candidates[i] \in frame.cols
                              /\ \A j \in 1..(i-1) : daerah_candidates[j] \notin frame.cols]
    ELSE ""

\* lines 766-769
search_cols(frame) ==
    {"Judul Inovasi", "Urusan Utama", "Urusan lain yang beririsan"} \cap frame.cols

\* line 773: Series.astype(str).str.contains(keyword, case=False, na=False)
\* for one cell; astype(str) turns a missing value into 'nan' before the
\* search.  (Keywords are letters and blanks, which a regular expression
\* reads as themselves.)
ContainsNoCase(cell, keyword) ==
    StrContains(StrLower(AsStr(cell)), StrLower(keyword))

\* lines 758-761
MapBase(frame) ==
    IF {"lat", "lon"} \subseteq frame.cols THEN DropNa(frame, {"lat", "lon"}) ELSE EmptyFrame

\* lines 765-774
SearchMap(frame, keyword) ==
    IF StrStrip(keyword) # <<>> /\ search_cols(frame) # {}
    THEN LET Keep(row) == \E col \in search_cols(frame) : ContainsNoCase(row.c[col], keyword)
         IN  [cols |-> frame.cols, rows |-> SelectSeq(frame.rows, Keep)]
    ELSE frame

\* lines 776-777
RegionMap(frame, dcol, dsel) ==
    IF dcol # "" /\ dsel # T_All
    THEN LET Keep(row) == row.c[dcol] = Str(dsel)
         IN  [cols |-> frame.cols, rows |-> SelectSeq(frame.rows, Keep)]
    ELSE frame

\* frame.head(n)
HeadRows(frame, n) ==
    [cols |-> frame.cols,
     rows |-> SubSeq(frame.rows, 1, IF Len(frame.rows) < n THEN Len(frame.rows) ELSE n)]

\* lines 758-780
MapFrame(frame, keyword, dcol, dsel) ==
    HeadRows(IF IsEmpty(MapBase(frame))
             THEN MapBase(frame)
             ELSE RegionMap(SearchMap(MapBase(frame), keyword), dcol, dsel),
             600)

RECURSIVE Combinations(_, _)
\* list(itertools.combinations(items, r)): the r-element subsequences of
\* items, in lexicographic order of their positions
Combinations(items, r) ==
    IF r = 0 THEN << <<>> >>
    ELSE IF Len(items) < r THEN <<>>
    ELSE LET rest == Combinations(Tail(items), r - 1)
         IN  [i \in 1..Len(rest) |-> <<Head(items)>> \o rest[i]]
                 \o Combinations(Tail(items), r)

RECURSIVE CombinationsFrom(_, _)
\* lines 979-981: the combinations of r, r+1, ..., len(items) elements
CombinationsFrom(items, r) ==
    IF r > Len(items) THEN <<>>
    ELSE Combinations(items, r) \o CombinationsFrom(items, r + 1)

\* all_combinations with range(1, ...) for range(2, ...)
all_combinations_from_one(selected, limit) ==
    LET all == CombinationsFrom(selected, 1)
    IN  SubSeq(all, 1, IF Len(all) < limit THEN Len(all) ELSE limit)

\* lines 979-984
all_combinations(selected, limit) ==
    LET all == CombinationsFrom(selected, 2)
    IN  SubSeq(all, 1, IF Len(all) < limit THEN Len(all) ELSE limit)

\* lines 970-989: the combinations saran_kolaborasi_gemini is called for, in
\* the order of the loop
Requested(selected, limit) ==
    IF Len(selected) < 2 \/ Len(selected) > 5 THEN <<>>
    ELSE all_combinations(selected, limit)

\* GanttEnd with 'Tanggal Pengembangan' preferred to 'Tanggal Penerapan'
GanttEnd_development_first(cols, row) ==
    LET dev == IF "Tanggal Pengembangan" \in cols
               THEN ToDatetime(row.c["Tanggal Pengembangan"]) ELSE Null
    IN  IF "Tanggal Penerapan" \in cols /\ IsNull(dev)
        THEN ToDatetime(row.c["Tanggal Penerapan"])
        ELSE dev

\* lines 1013-1017: 'Tanggal Penerapan', filled from 'Tanggal Pengembangan'
\* where it is NaT
GanttEnd(cols, row) ==
    LET app == IF "Tanggal Penerapan" \in cols
               THEN ToDatetime(row.c["Tanggal Penerapan"]) ELSE Null
    IN  IF "Tanggal Pengembangan" \in cols /\ IsNull(app)
        THEN ToDatetime(row.c["Tanggal Pengembangan"])
        ELSE app

\* line 1010; the column holds dates and NaT since load_data
GanttStart(row) == ToDatetime(row.c["Tanggal Input"])

\* lines 1020-1021: Start + 30 days where End is still NaT and Start is not
GanttEndOrDefault(cols, row) ==
    IF ~IsNull(GanttStart(row)) /\ IsNull(GanttEnd(cols, row))
    THEN Date(GanttStart(row).d + 30)
    ELSE GanttEnd(cols, row)

\* gantt that writes 'Start' and 'End' into the frame it is given
gantt_in_place(frame) ==
    LET derived ==
            SetCol(SetCol(CoerceKematangan(frame), "Start",
                          [i \in 1..Len(frame.rows) |-> GanttStart(frame.rows[i])]),
                   "End",
                   [i \in 1..Len(frame.rows) |-> GanttEndOrDefault(frame.cols, frame.rows[i])])
    IN  [given |-> derived, gantt_df |-> derived]

\* lines 1004-1021: gantt_df, derived from a copy of the frame given, and the
\* frame given as it is afterwards
gantt(frame) ==
    [given |-> frame,
     gantt_df |->
        SetCol(SetCol(CoerceKematangan(frame), "Start",
                      [i \in 1..Len(frame.rows) |-> GanttStart(frame.rows[i])]),
               "End",
               [i \in 1..Len(frame.rows) |-> GanttEndOrDefault(frame.cols, frame.rows[i])])]

\* lines 1024, 1027: the rows with Start and End, with 'Task'
GanttPlot(gantt_df) ==
    LET kept == DropNa(gantt_df, {"Start", "End"})
    IN  SetCol(kept, "Task",
               [i \in 1..Len(kept.rows) |-> Str(AsStr(kept.rows[i].c["Judul Inovasi"]))])

\* line 1040: sort_values("Start") with the default quicksort, which fixes
\* no order among rows of equal Start: the orders it can leave the rows in
SortedByStart(frame) ==
    { [cols |-> frame.cols, rows |-> [i \in 1..Len(frame.rows) |-> frame.rows[p[i]]]] :
        p \in {q \in Permutations(1..Len(frame.rows)) :
                  \A i, j \in 1..Len(frame.rows) :
                      i < j => frame.rows[q[i]].c["Start"].d <= frame.rows[q[j]].c["Start"].d} }

\* lines 1077-1080: reset_index(drop=True), any 'No' column dropped, 'No'
\* inserted as 1, 2, ...
DisplayFrame(frame) ==
    [cols |-> frame.cols \cup {"No"},
     rows |-> [i \in 1..Len(frame.rows) |->
                 [id |-> i - 1,
                  c  |-> [k \in frame.cols \cup {"No"} |->
                            IF k = "No" THEN Num(i) ELSE frame.rows[i].c[k]]]]]

---------------------------------------------------------------------------
(* The spreadsheets the page is run on.                                    *)

\* the sequences over S of length 1..n
SeqsUpTo(S, n) == UNION {[1..k -> S] : k \in 1..n}

\* those of them that repeat no element
DistinctSeqsUpTo(S, n) ==
    {s \in SeqsUpTo(S, n) : \A i, j \in 1..Len(s) : s[i] = s[j] => i = j}

\* the texts over the characters of alphabet of length 0..n
Texts(alphabet, n) == UNION {[1..k -> alphabet] : k \in 0..n}

Restrict(row, cols) == [k \in cols |-> row[k]]

Sheet(cols, cells) == [readable |-> TRUE, cols |-> cols, cells |-> cells]

\* a corrupt upload, or no file at default_path
Unreadable == [readable |-> FALSE, cols |-> {}, cells |-> <<>>]

\* a sheet without rows
EmptySheet == Sheet({"Kematangan", "Jenis"}, <<>>)

FilterCols == {"Kematangan", "Jenis", "Admin OPD", "Kategori Admin OPD", "Urusan Utama"}

FilterRow(k, j, a, g, u) ==
    ("Kematangan" :> k) @@ ("Jenis" :> j) @@ ("Admin OPD" :> a) @@
    ("Kategori Admin OPD" :> g) @@ ("Urusan Utama" :> u)

\* rows of a sheet of innovations: maturity as a number, as text, or missing;
\* kind, organization, category and domain present or missing
FilterRows ==
    { FilterRow(Num(2), Str(<<"D">>), Str(<<"s","m","k","1">>), Str(<<"X">>), Str(<<"K">>)),
      FilterRow(Num(0), Str(<<"N">>), Str(<<"a",".","b">>), Str(<<"Y">>), Str(<<"P">>)),
      FilterRow(Null, Str(<<"D">>), Null, Null, Str(<<"K">>)),
      FilterRow(Str(<<"1">>), Null, Str(<<"a",".","b">>), Str(<<"X">>), Null) }

\* the column sets of the sheets: all the filtered columns, or some absent
FilterColSets ==
    { FilterCols,
      FilterCols \ {"Kematangan"},
      FilterCols \ {"Jenis", "Admin OPD"},
      FilterCols \ {"Kategori Admin OPD", "Urusan Utama"} }

\* three records that differ in maturity, kind, organization and domain, on
\* sheets with every filtered column
OrderRows ==
    { FilterRow(Num(2), Str(<<"D">>), Str(<<"s","m","k","1">>), Str(<<"X">>), Str(<<"K">>)),
      FilterRow(Num(0), Str(<<"N">>), Str(<<"a",".","b">>), Str(<<"Y">>), Str(<<"P">>)),
      FilterRow(Str(<<"1">>), Null, Str(<<"a",".","b">>), Str(<<"X">>), Null) }

OrderSources ==
    { Sheet(FilterCols, cells) : cells \in DistinctSeqsUpTo(OrderRows, MaxRows) }

FilterSources ==
    { Sheet(cols, [i \in 1..Len(cells) |-> Restrict(cells[i], cols)]) :
        cols \in FilterColSets, cells \in DistinctSeqsUpTo(FilterRows, MaxRows) }

\* the texts of length 1..n: what a text cell of a sheet can hold
CellTexts(alphabet, n) == Texts(alphabet, n) \ {<<>>}

\* sheets with repeated rows, and rows that differ only in a maturity that
\* is no number
DedupRows ==
    { ("Kematangan" :> k) @@ ("Jenis" :> j) :
        k \in {Num(1), Str(<<"x">>), Str(<<"y">>)}, j \in {Str(<<"D">>), Null} }

DedupSheets ==
    { Sheet({"Kematangan", "Jenis"}, cells) : cells \in SeqsUpTo(DedupRows, MaxRows) }

T_1_2_2024 == <<"1","/","2","/","2","0","2","4">>

T_3_1_2024 == <<"3","/","1","/","2","0","2","4">>

\* one-row sheets with maturity and dates as numbers, dates, text and
\* unparseable text
CoerceSheets ==
    { Sheet({"Kematangan", "Tanggal Input", "Tanggal Penerapan"},
            << ("Kematangan" :> k) @@ ("Tanggal Input" :> a) @@ ("Tanggal Penerapan" :> b) >>) :
        k \in {Num(5), Str(<<"7">>), Str(<<"-","3">>), Str(<<"x">>), Null},
        a \in {Date(10), Str(T_1_2_2024), Str(<<"x">>), Str(<<"1","/","x">>), Null},
        b \in {Str(T_3_1_2024), Null} }

\* the cells of a 'Koordinat' column: any short text of digits, signs,
\* commas and letters, or empty
CoordCells == {Null} \cup {Str(s) : s \in CellTexts({"1", "-", ",", "x"}, MaxTextLen)}

CoordMore == {Str(<<"1",",","1">>), Str(<<"x">>), Null}

\* sheets with a 'Koordinat' column: any cell in the first row, then rows
\* with a pair, with no comma, or empty
CoordSheets ==
    { Sheet({"Koordinat"},
            <<("Koordinat" :> first)>> \o [i \in 1..Len(more) |-> ("Koordinat" :> more[i])]) :
        first \in CoordCells,
        more \in {<<>>} \cup SeqsUpTo(CoordMore, MaxRows - 1) }

\* one-row sheets with 'lat' and 'lon' columns of their own, or 'lat' alone
LatLonSheets ==
    { Sheet({"lat", "lon"}, << ("lat" :> a) @@ ("lon" :> b) >>) :
        a \in {Num(1), Str(<<"2">>), Str(<<"x">>), Null},
        b \in {Num(3), Str(<<"-","4">>), Str(<<"x">>), Null} }
    \cup { Sheet({"lat"}, << ("lat" :> a) >>) : a \in {Num(1), Str(<<"x">>)} }

\* the cells of a categorical column: short texts with blanks, the tokens
\* that stand for a missing value, or empty
CatCells ==
    {Null, Str(T_nan), Str(T_NaN), Str(T_None), Str(<<" ">> \o T_nan), Str(<<"n","a","N">>)}
    \cup {Str(s) : s \in CellTexts({" ", "D"}, MaxTextLen)}

\* one-row sheets with one categorical column each, and with all of them
CatSheets ==
    { Sheet({col}, << (col :> v) >>) : col \in cat_cols, v \in CatCells }
    \cup { Sheet(cat_cols, << [col \in cat_cols |-> v[col]] >>) :
             v \in [cat_cols -> {Str(<<"D"," ">>), Str(T_None)}] }

T_dinas_kesehatan_jatim ==
    <<"d","i","n","a","s",".","k","e","s","e","h","a","t","a","n",".","j","a","t","i","m">>

T_SMKN_1_Surabaya ==
    <<"S","M","K","N"," ","1"," ","S","u","r","a","b","a","y","a">>

\* texts around the sentinel of line 83: as it is, upper-cased, and cut short
SentinelTexts ==
    { pre \o mid \o post :
        pre \in {<<>>, <<"x">>, <<"s","m","a">>, <<" ">>},
        mid \in {T_iga2025, StrUpper(T_iga2025), SubSeq(T_iga2025, 1, Len(T_iga2025) - 1)},
        post \in {<<>>, <<"x">>, <<"S","L","B">>, <<".","a">>} }

\* the cells of an 'Admin OPD' column
AdminCells ==
    {Null, Str(T_nan), Str(T_None), Str(T_dinas_kesehatan_jatim), Str(T_SMKN_1_Surabaya),
     Str(<<"s","l","b">>), Str(<<"a","S","m","K">>), Str(<<" ","d","i","N","a","s"," ",".","x">>),
     Str(<<"r","s","u","d"," ","d","r",".","s">>), Str(<<"u","p","t","-","2","b"," ","c","D">>)}
    \cup {Str(s) : s \in SentinelTexts}
    \cup {Str(s) : s \in CellTexts({"s", "M", "a", ".", " "}, MaxTextLen)}

\* one-row sheets with an 'Admin OPD' column
AdminSheets == { Sheet({"Admin OPD"}, << ("Admin OPD" :> v) >>) : v \in AdminCells }

T_Sby == <<"S","b","y">>

T_Mlg == <<"M","l","g">>

\* map_jatim.csv as it is beside the script in the page runs: two regions
GazJatim == << GazEntry(Str(T_Sby), -7250, 112750), GazEntry(Str(T_Mlg), -7980, 112630) >>

\* map_jatim.csv with the 'kabupaten' cells of its rows left empty
GazNoName == << GazEntry(Null, -7250, 112750), GazEntry(Null, -7980, 112630) >>

\* entries of the gazetteers get_nearest_area is given: two names on the
\* corners of a small grid
GazEntries ==
    { GazEntry(Str(name), lat, lon) : name \in {T_Sby, T_Mlg}, lat \in {0, 8}, lon \in {0, 12} }

\* gazetteers of 1..MaxGaz entries, none twice
Gazetteers == DistinctSeqsUpTo(GazEntries, MaxGaz)

\* the points resolved: on an entry, between entries, at the threshold from
\* one, and far from all
Points == { [lat |-> lat, lon |-> lon] : lat \in {0, 4, 8}, lon \in {0, 3, 6, 10, 30} }

NoPoint == [lat |-> 0, lon |-> 0]

\* a row of a sheet from its cells, column by column
RowOf(cols, cells) == [k \in cols |-> cells[k]]

T_P == <<"P">>

\* the sheets of the timeline: a title, a maturity, and the three dates as
\* Excel dates, as text, unparseable or missing
GanttCols == {"Kematangan", "Judul Inovasi", "Tanggal Input", "Tanggal Penerapan",
              "Tanggal Pengembangan"}

GanttRow(input, application, development) ==
    ("Kematangan" :> Num(1)) @@ ("Judul Inovasi" :> Str(T_P)) @@
    ("Tanggal Input" :> input) @@ ("Tanggal Penerapan" :> application) @@
    ("Tanggal Pengembangan" :> development)

GanttRows ==
    { GanttRow(Date(10), Null, Null),
      GanttRow(Date(10), Date(50), Date(20)),
      GanttRow(Str(<<"5","/","1","/","2","0","2","4">>), Null, Date(20)),
      GanttRow(Null, Date(50), Null),
      GanttRow(Str(<<"x">>), Str(<<"x">>), Str(T_3_1_2024)) }

GanttColSets ==
    { GanttCols,
      GanttCols \ {"Tanggal Input"},
      GanttCols \ {"Tanggal Penerapan"},
      GanttCols \ {"Tanggal Pengembangan"},
      GanttCols \ {"Tanggal Penerapan", "Tanggal Pengembangan"} }

GanttSheets ==
    { Sheet(cols, [i \in 1..Len(cells) |-> Restrict(cells[i], cols)]) :
        cols \in GanttColSets, cells \in DistinctSeqsUpTo(GanttRows, MaxViewRows) }

T_Kan == <<"K","a","n">>

\* the sheets of the map search: records with and without a title, a
\* domain and coordinates
SearchCols == {"Kematangan", "Judul Inovasi", "Urusan Utama", "lat", "lon"}

SearchRow(title, domain, lat, lon) ==
    ("Kematangan" :> Num(0)) @@ ("Judul Inovasi" :> title) @@
    ("Urusan Utama" :> domain) @@ ("lat" :> lat) @@ ("lon" :> lon)

SearchRows ==
    { SearchRow(Str(T_Kan), Str(<<"x">>), Num(-7250), Num(112750)),
      SearchRow(Null, Str(<<"x">>), Num(-7250), Num(112750)),
      SearchRow(Str(<<"Z">>), Null, Num(-7980), Num(112630)),
      SearchRow(Str(T_Kan), Str(<<"x">>), Null, Num(112750)) }

SearchSheets ==
    { Sheet(cols, [i \in 1..Len(cells) |-> Restrict(cells[i], cols)]) :
        cols \in {SearchCols, SearchCols \ {"Urusan Utama"}},
        cells \in DistinctSeqsUpTo(SearchRows, MaxViewRows) }

\* the sheets of the region selectbox: records of two regions and of none
RegionCols == {"Kematangan", "Judul Inovasi", "Daerah", "lat", "lon"}

RegionRow(daerah, lat, lon) ==
    ("Kematangan" :> Num(0)) @@ ("Judul Inovasi" :> Str(T_P)) @@
    ("Daerah" :> daerah) @@ ("lat" :> lat) @@ ("lon" :> lon)

RegionRows ==
    { RegionRow(Str(T_Sby), Num(-7250), Num(112750)),
      RegionRow(Str(T_Mlg), Num(-7980), Num(112630)),
      RegionRow(Str(T_Sby), Num(-7246), Num(112755)),
      RegionRow(Null, Num(0), Num(0)) }

RegionSheets ==
    { Sheet(cols, [i \in 1..Len(cells) |-> Restrict(cells[i], cols)]) :
        cols \in {RegionCols, RegionCols \ {"lat", "lon"}},
        cells \in DistinctSeqsUpTo(RegionRows, MaxViewRows) }

\* the sheets of the category pass: an organization and the sheet's own
\* category column
CategoryCols == {"Kematangan", "Admin OPD", "Kategori Admin OPD"}

CategoryRow(admin, category) ==
    ("Kematangan" :> Num(0)) @@ ("Admin OPD" :> admin) @@ ("Kategori Admin OPD" :> category)

CategoryRows ==
    { CategoryRow(Str(<<"a",".","b">>), Str(<<"X">>)),
      CategoryRow(Str(<<"s","m","k">>), Str(<<"Y">>)),
      CategoryRow(Str(<<"b"," ","(","J","a","t","i","m","p","r","o","v",".","c",".","d",")">>),
                  Str(<<"B"," ","(","J","a","t","i","m","p","r","o","v",".","C",".","D",")">>)),
      CategoryRow(Null, Str(<<"X">>)) }

CategorySheets ==
    { Sheet(cols, [i \in 1..Len(cells) |-> Restrict(cells[i], cols)]) :
        cols \in {CategoryCols, CategoryCols \ {"Admin OPD"}},
        cells \in DistinctSeqsUpTo(CategoryRows, MaxViewRows) }

\* the sheets with expected columns absent: one record, and every column
\* set that lacks one of the expected columns, or the dates and coordinates
ExpectedCols == {"Kematangan", "Judul Inovasi", "Admin OPD", "Jenis", "Tanggal Input",
                 "lat", "lon"}

ExpectedRow ==
    ("Kematangan" :> Num(0)) @@ ("Judul Inovasi" :> Str(T_P)) @@
    ("Admin OPD" :> Str(<<"a",".","b">>)) @@ ("Jenis" :> Str(<<"D">>)) @@
    ("Tanggal Input" :> Date(10)) @@ ("lat" :> Num(-7250)) @@ ("lon" :> Num(112750))

MissingSheets ==
    { Sheet(cols, << Restrict(ExpectedRow, cols) >>) :
        cols \in {ExpectedCols} \cup {ExpectedCols \ {col} : col \in ExpectedCols}
                   \cup {ExpectedCols \ {"Tanggal Input", "lat", "lon"}} }

\* a sheet with every expected column and two records, of maturity 0 and 1
FullSheet ==
    Sheet(ExpectedCols,
          << ExpectedRow,
             ("Kematangan" :> Num(1)) @@ ("Judul Inovasi" :> Str(T_P)) @@
             ("Admin OPD" :> Str(<<"a",".","b">>)) @@ ("Jenis" :> Str(<<"D">>)) @@
             ("Tanggal Input" :> Date(20)) @@ ("lat" :> Num(-7980)) @@ ("lon" :> Num(112630)) >>)

\* the titles of the records of the collaboration sheet
TitleNames == <<"P", "Q", "R", "S", "T", "U", "V", "W">>

\* the sheet the collaboration section is run on: MaxTitles records, each
\* with a title of its own, of maturity 1 and 0
TitleSheet ==
    Sheet({"Kematangan", "Judul Inovasi"},
          [i \in 1..MaxTitles |->
              ("Kematangan" :> Num((MaxTitles - i) \div 3)) @@
              ("Judul Inovasi" :> Str(<<TitleNames[i]>>))])

\* the sheets the whole page is run on
RunSources ==
    {Unreadable, EmptySheet, Sheet({"Kematangan", "Judul Inovasi"}, SubSeq(TitleSheet.cells, 1, 2))}
        \cup GanttSheets \cup SearchSheets \cup RegionSheets \cup CategorySheets
        \cup MissingSheets \cup {FullSheet}

LoadSources ==
    DedupSheets \cup CoerceSheets \cup CoordSheets \cup LatLonSheets
        \cup CatSheets \cup AdminSheets

---------------------------------------------------------------------------
(* The page run.                                                           *)

\* lines 148, 159, 171, 181: df[col].dropna().unique()
Options(frame, col) ==
    {frame.rows[i].c[col].s :
        i \in {j \in 1..Len(frame.rows) : ~IsNull(frame.rows[j].c[col])}}

\* lines 147-188: what a multiselect over col can return: any selection
\* among 'All' and the options; ['All'] without a widget when the column
\* is absent
Choices(frame, col) ==
    IF col \in frame.cols
    THEN SUBSET ({T_All} \cup Options(frame, col))
    ELSE {{T_All}}

\* the state before the script runs, but for the sheet, the gazetteer and
\* the point
InitRest ==
    /\ pc = "start"
    /\ df = EmptyFrame
    /\ notice = "none"
    /\ min_kematangan = 0
    /\ jenis_selected = {T_All}
    /\ opd_selected = {T_All}
    /\ kategori_selected = {T_All}
    /\ urusan_selected = {T_All}
    /\ df_filtered = EmptyFrame
    /\ df_again = EmptyFrame
    /\ raised = "none"
    /\ nearest = Null
    /\ df_geo = EmptyFrame
    /\ selected_daerah = Null
    /\ search_keyword = <<>>
    /\ daerah_selected = T_All
    /\ map_df = EmptyFrame
    /\ selected_inovasi = <<>>
    /\ max_comb = 5
    /\ sent = <<>>
    /\ gantt_plot_df = EmptyFrame
    /\ df_display = EmptyFrame

\* the state before the script runs on one of the sheets, with one of the
\* gazetteers in map_jatim.csv
InitWith(sheets, gazetteers) ==
    /\ source \in sheets
    /\ map_jatim \in gazetteers
    /\ point = NoPoint
    /\ InitRest

InitOn(sheets) == InitWith(sheets, {GazJatim})

Init == InitOn(FilterSources \cup {Unreadable, EmptySheet})

\* line 134: df = load_data(uploaded_file)
LoadData ==
    /\ pc = "start"
    /\ LET r == load_data(source) IN
        /\ pc' = IF r.raised THEN "crashed" ELSE "loaded"
        /\ raised' = IF r.raised THEN "KeyError_coords" ELSE "none"
        /\ df' = r.frame
        /\ notice' = r.notice
    /\ UNCHANGED <<source, min_kematangan, jenis_selected, opd_selected,
                   kategori_selected, urusan_selected, df_filtered, df_again,
                   viewVars>>

\* lines 140-188: the sidebar widgets return the user's choices
SidebarWidgets ==
    /\ pc = "loaded"
    /\ \E m \in 0..MaxThreshold,
          js \in Choices(df, "Jenis"),
          os \in Choices(df, "Admin OPD Grouped"),
          ks \in Choices(df, "Kategori Admin OPD"),
          us \in Choices(df, "Urusan Utama") :
        /\ Cardinality({i \in 1..4 : <<js, os, ks, us>>[i] # {T_All}}) <= MaxChanged
        /\ min_kematangan' = m
        /\ jenis_selected' = js
        /\ opd_selected' = os
        /\ kategori_selected' = ks
        /\ urusan_selected' = us
    /\ pc' = "widgets"
    /\ UNCHANGED <<source, df, notice, df_filtered, df_again, raised, viewVars>>

\* lines 194-197: st.stop() on an empty df
StopNoData ==
    /\ pc = "widgets"
    /\ IsEmpty(df)
    /\ pc' = "stopped"
    /\ UNCHANGED <<source, df, notice, min_kematangan, jenis_selected, opd_selected,
                   kategori_selected, urusan_selected, df_filtered, df_again,
                   raised, viewVars>>

\* lines 247-254: df_filtered = apply_filters(df, ...)
ApplyFilters ==
    /\ pc = "widgets"
    /\ ~IsEmpty(df)
    /\ df_filtered' = apply_filters(df, min_kematangan, jenis_selected, opd_selected,
                                    kategori_selected, urusan_selected)
    /\ pc' = "filtered"
    /\ UNCHANGED <<source, df, notice, min_kematangan, jenis_selected, opd_selected,
                   kategori_selected, urusan_selected, df_again, raised, viewVars>>

Next == LoadData \/ SidebarWidgets \/ StopNoData \/ ApplyFilters

\* what the user types into the search box of line 746: nothing, or letters
Keywords == {<<>>, <<"A","N">>}

\* the values the slider of line 961 is left at: its least, its default and
\* its greatest
SliderValues == {1, 5, 10}

\* s[::-1]
Reverse(s) == [i \in 1..Len(s) |-> s[Len(s) + 1 - i]]

\* what the multiselect of line 953 can return: the titles the user picked
\* among the options, in the order picked; the user picks down the list or
\* up the list
Selections(options) ==
    LET down == {KeepRows(options, [i \in 1..Len(options) |-> i \in picked]) :
                    picked \in SUBSET (1..Len(options))}
    IN  down \cup {Reverse(s) : s \in down}

\* lines 257-259: st.stop() when no record passes the filters
StopNoMatch ==
    /\ pc = "filtered"
    /\ IsEmpty(df_filtered)
    /\ pc' = "stopped_nomatch"
    /\ UNCHANGED <<source, df, notice, min_kematangan, jenis_selected, opd_selected,
                   kategori_selected, urusan_selected, df_filtered, df_again,
                   raised, viewVars>>

\* lines 262-302: the summary table; sort_values(by="Kematangan") on the
\* columns of cols_to_show raises KeyError when 'Kematangan' is not one
SummaryTable ==
    /\ pc = "filtered"
    /\ ~IsEmpty(df_filtered)
    /\ IF "Kematangan" \in df_filtered.cols
       THEN pc' = "summary" /\ raised' = raised
       ELSE pc' = "crashed" /\ raised' = "KeyError_Kematangan"
    /\ UNCHANGED <<source, df, notice, min_kematangan, jenis_selected, opd_selected,
                   kategori_selected, urusan_selected, df_filtered, df_again,
                   viewVars>>

\* lines 306-569: the category pass rebinds df_filtered; the charts by form,
\* kind and domain read it, each under a test for its column
CategoryPass ==
    /\ pc = "summary"
    /\ df_filtered' = AssignCategory(df_filtered)
    /\ pc' = "category"
    /\ UNCHANGED <<source, df, notice, min_kematangan, jenis_selected, opd_selected,
                   kategori_selected, urusan_selected, df_again, raised, viewVars>>

\* lines 594-730: the region view.  With no record that has both
\* coordinates, df.apply(..., axis=1) of line 631 returns an empty frame of
\* all the columns, and its assignment to the one column 'Daerah' raises
\* ValueError.  With no region name to choose, the selectbox returns None,
\* df_selected is empty and the run stops at line 646.
RegionView ==
    /\ pc = "category"
    /\ IF lat_col(df_filtered) # "" /\ lon_col(df_filtered) # ""
       THEN LET geo == DropNa(df_filtered, {lat_col(df_filtered), lon_col(df_filtered)})
            IN  IF Len(geo.rows) = 0
                THEN /\ df_geo' = geo
                     /\ selected_daerah' = selected_daerah
                     /\ pc' = "crashed"
                     /\ raised' = "ValueError_Daerah"
                ELSE LET resolved == map_coordinates_to_region(geo, map_jatim)
                     IN  /\ df_geo' = resolved
                         /\ raised' = raised
                         /\ IF Options(resolved, "Daerah") = {}
                            THEN selected_daerah' = Null /\ pc' = "stopped_region"
                            ELSE /\ \E d \in Options(resolved, "Daerah") :
                                        selected_daerah' = Str(d)
                                 /\ pc' = "region"
       ELSE /\ pc' = "region"
            /\ UNCHANGED <<df_geo, selected_daerah, raised>>
    /\ UNCHANGED <<source, df, notice, min_kematangan, jenis_selected, opd_selected,
                   kategori_selected, urusan_selected, df_filtered, df_again,
                   map_jatim, point, nearest, search_keyword, daerah_selected, map_df,
                   selected_inovasi, max_comb, sent, gantt_plot_df, df_display>>

\* lines 736-869: the map with its search box and its region selectbox
MapView ==
    /\ pc = "region"
    /\ \E keyword \in Keywords,
          dsel \in {T_All} \cup (IF daerah_col(df_filtered) # ""
                                 THEN Options(df_filtered, daerah_col(df_filtered))
                                 ELSE {}) :
        /\ search_keyword' = keyword
        /\ daerah_selected' = dsel
        /\ map_df' = MapFrame(df_filtered, keyword, daerah_col(df_filtered), dsel)
    /\ pc' = "map"
    /\ UNCHANGED <<source, df, notice, min_kematangan, jenis_selected, opd_selected,
                   kategori_selected, urusan_selected, df_filtered, df_again, raised,
                   map_jatim, point, nearest, df_geo, selected_daerah,
                   selected_inovasi, max_comb, sent, gantt_plot_df, df_display>>

\* lines 929-965: df_compare is a copy of df_filtered; st.stop() without a
\* 'Judul Inovasi' column; else the multiselect of titles and the slider
CompareSource ==
    /\ pc = "map"
    /\ IF "Judul Inovasi" \notin df_filtered.cols
       THEN /\ pc' = "stopped_notitle"
            /\ UNCHANGED <<selected_inovasi, max_comb>>
       ELSE /\ \E selected \in Selections(SortedTexts(Options(df_filtered, "Judul Inovasi"))),
                  limit \in SliderValues :
                /\ selected_inovasi' = selected
                /\ max_comb' = limit
            /\ pc' = "ai"
    /\ UNCHANGED <<source, df, notice, min_kematangan, jenis_selected, opd_selected,
                   kategori_selected, urusan_selected, df_filtered, df_again, raised,
                   map_jatim, point, nearest, df_geo, selected_daerah, search_keyword,
                   daerah_selected, map_df, sent, gantt_plot_df, df_display>>

\* lines 987-993, one turn of the loop: saran_kolaborasi_gemini sends the
\* request for the next combination; the response is shown, or
\* generate_content raises, which neither lines 891-923 nor the loop catch
AIRequest ==
    /\ pc = "ai"
    /\ Len(sent) < Len(Requested(selected_inovasi, max_comb))
    /\ sent' = Append(sent, Requested(selected_inovasi, max_comb)[Len(sent) + 1])
    /\ \/ pc' = "ai" /\ raised' = raised
       \/ pc' = "crashed" /\ raised' = "ExternalCallError"
    /\ UNCHANGED <<source, df, notice, min_kematangan, jenis_selected, opd_selected,
                   kategori_selected, urusan_selected, df_filtered, df_again,
                   map_jatim, point, nearest, df_geo, selected_daerah, search_keyword,
                   daerah_selected, map_df, selected_inovasi, max_comb,
                   gantt_plot_df, df_display>>

\* lines 999-1068, once the loop is through: the timeline.  Line 1027 reads
\* 'Judul Inovasi' and line 1062 'Kematangan' without a test for the column.
Gantt ==
    /\ pc = "ai"
    /\ Len(sent) = Len(Requested(selected_inovasi, max_comb))
    /\ IF "Tanggal Input" \in df_filtered.cols
       THEN LET r == gantt(df_filtered)
                kept == DropNa(r.gantt_df, {"Start", "End"})
            IN  /\ df_filtered' = r.given
                /\ IF IsEmpty(kept)
                   THEN gantt_plot_df' = kept /\ pc' = "gantt" /\ raised' = raised
                   ELSE IF "Judul Inovasi" \notin kept.cols
                   THEN /\ gantt_plot_df' = kept
                        /\ pc' = "crashed" /\ raised' = "KeyError_Judul"
                   ELSE /\ gantt_plot_df' \in SortedByStart(GanttPlot(r.gantt_df))
                        /\ IF "Kematangan" \in kept.cols
                           THEN pc' = "gantt" /\ raised' = raised
                           ELSE pc' = "crashed" /\ raised' = "KeyError_Kematangan"
       ELSE /\ pc' = "gantt"
            /\ UNCHANGED <<df_filtered, gantt_plot_df, raised>>
    /\ UNCHANGED <<source, df, notice, min_kematangan, jenis_selected, opd_selected,
                   kategori_selected, urusan_selected, df_again,
                   map_jatim, point, nearest, df_geo, selected_daerah, search_keyword,
                   daerah_selected, map_df, selected_inovasi, max_comb, sent,
                   df_display>>

\* lines 1072-1094: the table and the Excel export of df_filtered
TableExport ==
    /\ pc = "gantt"
    /\ df_display' = DisplayFrame(df_filtered)
    /\ pc' = "done"
    /\ UNCHANGED <<source, df, notice, min_kematangan, jenis_selected, opd_selected,
                   kategori_selected, urusan_selected, df_filtered, df_again, raised,
                   map_jatim, point, nearest, df_geo, selected_daerah, search_keyword,
                   daerah_selected, map_df, selected_inovasi, max_comb, sent,
                   gantt_plot_df>>

\* the whole page run
NextRun ==
    \/ LoadData \/ SidebarWidgets \/ StopNoData \/ ApplyFilters
    \/ StopNoMatch \/ SummaryTable \/ CategoryPass \/ RegionView \/ MapView
    \/ CompareSource \/ AIRequest \/ Gantt \/ TableExport

\* lines 38-88 run once more, on the collection load_data returned
Renormalize ==
    /\ pc = "loaded"
    /\ ~IsEmpty(df)
    /\ df_again' = NormalizeSteps(df)
    /\ pc' = "renormalized"
    /\ UNCHANGED <<source, df, notice, min_kematangan, jenis_selected, opd_selected,
                   kategori_selected, urusan_selected, df_filtered, raised, viewVars>>

NextLoad == LoadData \/ Renormalize

Spec == Init /\ [][Next]_vars

\* the page run on the sheets that have every filtered column, for the order
\* of the filter steps
InitOrder == InitOn(OrderSources \cup {EmptySheet})

SpecOrder == InitOrder /\ [][Next]_vars

\* load_data on the sheets that exercise its normalization steps
InitLoad == InitOn(LoadSources)

SpecLoad == InitLoad /\ [][NextLoad]_vars

\* line 631, for one record: get_nearest_area on its latitude and longitude
ResolveRegion ==
    /\ pc = "start"
    /\ nearest' = get_nearest_area(point.lat, point.lon, map_jatim)
    /\ pc' = "resolved"
    /\ UNCHANGED <<source, df, notice, min_kematangan, jenis_selected, opd_selected,
                   kategori_selected, urusan_selected, df_filtered, df_again, raised,
                   map_jatim, point, df_geo, selected_daerah, search_keyword,
                   daerah_selected, map_df, selected_inovasi, max_comb, sent,
                   gantt_plot_df, df_display>>

NextNearest == ResolveRegion

\* get_nearest_area on the points and gazetteers
InitNearest ==
    /\ source = EmptySheet
    /\ map_jatim \in Gazetteers
    /\ point \in Points
    /\ InitRest

SpecNearest == InitNearest /\ [][NextNearest]_vars

\* the whole page run on the sheets of the views
InitRun == InitOn(RunSources)

SpecRun == InitRun /\ [][NextRun]_vars

\* the whole page run on the sheet of the collaboration section
InitAI == InitOn({Unreadable, EmptySheet, TitleSheet})

SpecAI == InitAI /\ [][NextRun]_vars

\* the whole page run, with a gazetteer that names its regions and one that
\* does not
InitComplete == InitWith(RunSources, {GazJatim, GazNoName})

\* lines 257-1094: the steps of the script that follow apply_filters
ViewSteps ==
    \/ StopNoMatch \/ SummaryTable \/ CategoryPass \/ RegionView \/ MapView
    \/ CompareSource \/ AIRequest \/ Gantt \/ TableExport

\* Streamlit executes the script from its first line to its last, or to the
\* st.stop() or the exception that ends the run: once apply_filters has
\* returned, a step that can be taken is taken
SpecComplete == InitComplete /\ [][NextRun]_vars /\ WF_vars(ViewSteps)

---------------------------------------------------------------------------
(* The Filter Engine: claims C1-C4.                                        *)

\* the predicates of apply_filters on one record of a frame with columns
\* cols, each stated on the record alone
PassesKematangan(cols, rec) ==
    "Kematangan" \in cols =>
        ~IsNull(rec.c["Kematangan"]) /\ rec.c["Kematangan"].n >= min_kematangan

PassesSelection(cols, rec, col, selected) ==
    (col \in cols /\ selected # {} /\ T_All \notin selected) =>
        \E s \in selected : rec.c[col] = Str(s)

PassesAll(cols, rec) ==
    /\ PassesKematangan(cols, rec)
    /\ PassesSelection(cols, rec, "Jenis", jenis_selected)
    /\ PassesSelection(cols, rec, "Admin OPD Grouped", opd_selected)
    /\ PassesSelection(cols, rec, "Kategori Admin OPD", kategori_selected)
    /\ PassesSelection(cols, rec, "Urusan Utama", urusan_selected)

\* a frame lists each of its records once
NoRepeat(frame) == Cardinality(RowSet(frame)) = Len(frame.rows)

\* C1: apply_filters returns exactly the records of df that satisfy every
\* active predicate at once (maturity non-null and >= the threshold, kind,
\* organization group, organization category and primary domain in their
\* selections): none that satisfies them all is missing, none that violates
\* one is present, and each is returned once.
C1_ExactlyTheRecordsPassingAll ==
    pc = "filtered" =>
        /\ RowSet(df_filtered) = {rec \in RowSet(df) : PassesAll(df.cols, rec)}
        /\ NoRepeat(df_filtered)
        /\ df_filtered.cols = df.cols

\* C1 witness: a threshold and a kind selection are both active, one record
\* passes both and another is removed.
C1_Witness ==
    /\ pc = "filtered"
    /\ min_kematangan > 0
    /\ "Kematangan" \in df.cols /\ "Jenis" \in df.cols
    /\ Active(jenis_selected)
    /\ Len(df_filtered.rows) >= 1
    /\ Len(df_filtered.rows) < Len(df.rows)

\* the five column steps of apply_filters by number
FilterStep(k, frame) ==
    CASE k = 1 -> FilterKematangan(frame, min_kematangan)
      [] k = 2 -> FilterJenis(frame, jenis_selected)
      [] k = 3 -> FilterOpd(frame, opd_selected)
      [] k = 4 -> FilterKategori(frame, kategori_selected)
      [] k = 5 -> FilterUrusan(frame, urusan_selected)

RECURSIVE ApplyInOrder(_, _)
\* the steps applied one after the other in the order the sequence gives
ApplyInOrder(order, frame) ==
    IF order = <<>> THEN frame
    ELSE ApplyInOrder(Tail(order), FilterStep(Head(order), frame))

\* the orders in which the five steps can be applied
StepOrders == Permutations(1..5)

\* C2: applying the filter predicates of apply_filters in any order yields
\* the records apply_filters returns.
C2_OrderDoesNotMatter ==
    pc = "filtered" => \A p \in StepOrders : ApplyInOrder(p, df) = df_filtered

\* C2 witness: a threshold and a kind selection each remove a record, so the
\* two steps both act and can be swapped.
C2_Witness ==
    /\ pc = "filtered"
    /\ Len(FilterKematangan(df, min_kematangan).rows) < Len(df.rows)
    /\ Len(FilterJenis(df, jenis_selected).rows) < Len(df.rows)
    /\ FilterKematangan(df, min_kematangan) # FilterJenis(df, jenis_selected)
    /\ Len(df_filtered.rows) >= 1

\* C3: the ActiveView holds only records of the DerivedRecord collection: its
\* records (index label and values) and its index labels are a subset, and
\* it is no longer than the collection.
C3_ActiveViewSubset ==
    pc = "filtered" =>
        /\ RowSet(df_filtered) \subseteq RowSet(df)
        /\ Ids(df_filtered) \subseteq Ids(df)
        /\ Len(df_filtered.rows) <= Len(df.rows)

\* C3 witness: a filtered view that is a proper, non-empty part of df.
C3_Witness ==
    /\ pc = "filtered"
    /\ RowSet(df_filtered) # {}
    /\ RowSet(df_filtered) # RowSet(df)

\* every filter dimension is unset: the threshold at its default 0 and each
\* multiselect empty or containing 'All'
AllUnset ==
    /\ min_kematangan = 0
    /\ ~Active(jenis_selected)
    /\ ~Active(opd_selected)
    /\ ~Active(kategori_selected)
    /\ ~Active(urusan_selected)

\* C4: with every filter dimension unset, apply_filters returns every record
\* of the collection, those with a null maturity included.
C4_UnsetRemovesNothing ==
    (pc = "filtered" /\ AllUnset) => df_filtered = df

---------------------------------------------------------------------------
(* The Schema Normalizer and the grouping pass: claims C5-C10.             *)

\* load_data has returned a normalized collection
Loaded == pc \notin {"start", "crashed"} /\ notice = "none"

\* N: the rows of the input
InputRows == Len(source.cells)

\* K: the rows of the input that are exact duplicates of an earlier row
InputDuplicates ==
    Cardinality({i \in 1..Len(source.cells) :
                    \E j \in 1..(i-1) : source.cells[j] = source.cells[i]})

\* C5: for a non-empty input of N rows of which K are exact duplicates of an
\* earlier row, the normalized collection has exactly N - K rows, which is
\* never more than N.
C5_DedupCount ==
    (Loaded /\ InputRows > 0) =>
        /\ Len(df.rows) = InputRows - InputDuplicates
        /\ Len(df.rows) <= InputRows

\* C5 witness: an input with a duplicated row and two different rows that
\* stay.
C5_Witness ==
    /\ Loaded
    /\ InputDuplicates >= 1
    /\ Len(df.rows) >= 2

\* C6 as stated: normalizing the normalized collection again yields the same
\* collection.
C6_Idempotent ==
    pc = "renormalized" => df_again = df

\* the index labels of a frame increase along its rows
LabelsIncrease(frame) ==
    \A i, j \in 1..Len(frame.rows) : i < j => frame.rows[i].id < frame.rows[j].id

\* C6 amended: normalizing the normalized collection again changes no value
\* and turns none into null; it keeps the columns and the order, and removes
\* exactly the rows that the first pass made equal in every column to an
\* earlier row.  A collection whose rows differ pairwise comes back the same.
C6_SecondPassOnlyDropsEqualRows ==
    pc = "renormalized" =>
        /\ df_again.cols = df.cols
        /\ RowSet(df_again) \subseteq RowSet(df)
        /\ NoRepeat(df_again) /\ LabelsIncrease(df_again)
        /\ \A rec \in RowSet(df) :
              rec \in RowSet(df_again) <=>
                  ~\E earlier \in RowSet(df) : earlier.id < rec.id /\ earlier.c = rec.c
        /\ (\A r1, r2 \in RowSet(df) : r1.c = r2.c => r1 = r2) => df_again = df

\* C6 witness: the first pass coerced two different cells to null, and the
\* second pass removed a row.
C6_Witness ==
    /\ pc = "renormalized"
    /\ Len(df_again.rows) < Len(df.rows)
    /\ Len(df_again.rows) >= 1

\* the text a 'Koordinat' cell of the input is split as
InputKoordinat(rec) == AsStr(source.cells[rec.id + 1]["Koordinat"])

\* C7: when 'Koordinat' exists, each cell is split once on its first comma;
\* latitude is the numeric coercion of the part before it and longitude of
\* the part after it (null when the cell has no comma), each on its own.
C7_SplitOnFirstComma ==
    (Loaded /\ "Koordinat" \in source.cols) =>
        \A rec \in RowSet(df) :
            LET text == InputKoordinat(rec) IN
            IF \E k \in 1..Len(text) : text[k] = ","
            THEN \E k \in 1..Len(text) :
                    /\ text[k] = ","
                    /\ \A j \in 1..(k-1) : text[j] # ","
                    /\ rec.c["lat"] = ParseNumber(SubSeq(text, 1, k - 1))
                    /\ rec.c["lon"] = ParseNumber(SubSeq(text, k + 1, Len(text)))
            ELSE /\ rec.c["lat"] = ParseNumber(text)
                 /\ rec.c["lon"] = Null

\* C7 witness: a cell whose left half is no number and whose right half is:
\* latitude null, longitude kept.
C7_Witness ==
    /\ Loaded
    /\ "Koordinat" \in source.cols
    /\ \E rec \in RowSet(df) :
          /\ InputKoordinat(rec) = <<"x", ",", "1">>
          /\ rec.c["lat"] = Null
          /\ rec.c["lon"] = Num(1)

\* C8: for every non-empty parsed table, whatever its cells hold, load_data
\* does not raise and returns one row per deduplicated input row.
C8_NeverRaisesNeverDrops ==
    (source.readable /\ InputRows > 0 /\ pc # "start") =>
        /\ pc # "crashed"
        /\ Len(df.rows) = InputRows - InputDuplicates

HasEdgeBlank(s) == Len(s) > 0 /\ (IsSpace(s[1]) \/ IsSpace(s[Len(s)]))

\* C9 as stated: after load_data every value of a categorical text field is
\* null or a string without leading or trailing whitespace, and none is
\* "nan", "NaN" or "None".
C9_TrimmedAndNoTokens ==
    Loaded =>
        \A rec \in RowSet(df) : \A col \in cat_cols \cap df.cols :
            \/ rec.c[col] = Null
            \/ /\ rec.c[col].t = "str"
               /\ ~HasEdgeBlank(rec.c[col].s)
               /\ rec.c[col].s \notin {T_nan, T_NaN, T_None}

\* C9 amended: after load_data every value of a categorical text field is
\* null or a string, none is "nan", "NaN" or "None", and a string is the
\* text of the input cell as it was, leading and trailing whitespace kept.
C9_StringsAndNoTokens ==
    Loaded =>
        \A rec \in RowSet(df) : \A col \in cat_cols \cap df.cols :
            LET given == source.cells[rec.id + 1][col] IN
            /\ \/ rec.c[col] = Null
               \/ /\ rec.c[col].t = "str"
                  /\ rec.c[col].s \notin {T_nan, T_NaN, T_None}
            /\ (given # Null /\ given.s \notin {T_nan, T_NaN, T_None}) => rec.c[col] = given
            /\ (given = Null \/ given \in {Str(T_nan), Str(T_NaN), Str(T_None)})
                   => rec.c[col] = Null

\* C9 witness: a "None" token became null and a text kept its trailing blank.
C9_Witness ==
    /\ Loaded
    /\ \E rec \in RowSet(df) : \E c1, c2 \in cat_cols \cap df.cols :
          /\ source.cells[rec.id + 1][c1] = Str(T_None)
          /\ rec.c[c1] = Null
          /\ rec.c[c2] = Str(<<"D", " ">>)

\* sub occurs in s at some offset
Occurs(sub, s) ==
    \E off \in 0..(Len(s) - Len(sub)) : \A k \in 1..Len(sub) : s[off + k] = sub[k]

---------------------------------------------------------------------------
(* The views that follow the Filter Engine: claims C11-C20.                *)

\* Manhattan distance of a gazetteer entry from a point
Dist(entry, p) == Abs(entry.lat - p.lat) + Abs(entry.lon - p.lon)

\* the least distance of an entry of map_jatim from the point
LeastDist ==
    CHOOSE d \in {Dist(map_jatim[i], point) : i \in 1..Len(map_jatim)} :
        \A i \in 1..Len(map_jatim) : d <= Dist(map_jatim[i], point)

\* C11: get_nearest_area returns the name of the gazetteer entry with the
\* least Manhattan distance |dlat| + |dlon| from the point, the first such
\* entry in gazetteer order on a tie, when that distance is strictly below
\* 0.01, and the "unidentified region" sentinel otherwise; a point on an
\* entry's coordinates resolves to that entry's name and a point farther
\* than the threshold from every entry resolves to the sentinel.
C11_NearestWithinThreshold ==
    pc = "resolved" =>
        /\ IF LeastDist < threshold
           THEN \E i \in 1..Len(map_jatim) :
                    /\ Dist(map_jatim[i], point) = LeastDist
                    /\ \A j \in 1..(i-1) : Dist(map_jatim[j], point) > LeastDist
                    /\ nearest = map_jatim[i].kabupaten
           ELSE nearest = Str(T_Wilayah)
        /\ (\E i \in 1..Len(map_jatim) : Dist(map_jatim[i], point) = 0) =>
               \E i \in 1..Len(map_jatim) :
                   /\ map_jatim[i].lat = point.lat /\ map_jatim[i].lon = point.lon
                   /\ nearest = map_jatim[i].kabupaten
        /\ (\A i \in 1..Len(map_jatim) : Dist(map_jatim[i], point) > threshold) =>
               nearest = Str(T_Wilayah)

\* C11 witness: two entries of different names are equally near the point,
\* below the threshold, and the first in gazetteer order gave its name.
C11_Witness ==
    /\ pc = "resolved"
    /\ Len(map_jatim) = 2
    /\ Dist(map_jatim[1], point) = Dist(map_jatim[2], point)
    /\ Dist(map_jatim[1], point) > 0
    /\ Dist(map_jatim[1], point) < threshold
    /\ map_jatim[1].kabupaten # map_jatim[2].kabupaten
    /\ nearest = map_jatim[1].kabupaten

\* the timeline has been derived
AfterGantt == pc \in {"gantt", "done"}

\* the record of the ActiveView with index label id
ViewRecord(id) == CHOOSE rec \in RowSet(df_filtered) : rec.id = id

\* a date field of a record, null when the sheet has no such column
DateField(rec, col) == IF col \in df_filtered.cols THEN rec.c[col] ELSE Null

\* C12: the timeline holds exactly the ActiveView records whose inputDate
\* is non-null, each once, with start = inputDate and end = applicationDate
\* when that is non-null, else developmentDate when that is non-null, else
\* start + 30 days (2024-01-10, day 10 of the year, gives 2024-02-09, day
\* 40); the records without a start are missing from the timeline only: the
\* ActiveView is the one apply_filters returned, and the table lists them.
C12_GanttRanges ==
    (AfterGantt /\ "Tanggal Input" \in df_filtered.cols) =>
        /\ Ids(gantt_plot_df) =
               {rec.id : rec \in {r \in RowSet(df_filtered) : ~IsNull(r.c["Tanggal Input"])}}
        /\ Cardinality(Ids(gantt_plot_df)) = Len(gantt_plot_df.rows)
        /\ \A g \in RowSet(gantt_plot_df) :
              LET rec == ViewRecord(g.id)
                  application == DateField(rec, "Tanggal Penerapan")
                  development == DateField(rec, "Tanggal Pengembangan")
              IN  /\ g.c["Start"] = rec.c["Tanggal Input"]
                  /\ g.c["End"] = IF ~IsNull(application) THEN application
                                  ELSE IF ~IsNull(development) THEN development
                                  ELSE Date(g.c["Start"].d + 30)
                  /\ (g.c["Start"] = Date(10) /\ IsNull(application) /\ IsNull(development))
                         => g.c["End"] = Date(40)
        /\ Ids(df_filtered) = Ids(apply_filters(df, min_kematangan, jenis_selected,
                                                opd_selected, kategori_selected,
                                                urusan_selected))
        /\ pc = "done" => Len(df_display.rows) = Len(df_filtered.rows)

\* C12 witness: a record entered on 2024-01-10 with no other date is on the
\* timeline until 2024-02-09, and a record without an input date is in the
\* ActiveView and not on the timeline.
C12_Witness ==
    /\ pc = "done"
    /\ {"Tanggal Input", "Tanggal Penerapan", "Tanggal Pengembangan"} \subseteq df_filtered.cols
    /\ \E g \in RowSet(gantt_plot_df) :
          /\ g.c["Start"] = Date(10) /\ g.c["End"] = Date(40)
          /\ IsNull(g.c["Tanggal Penerapan"]) /\ IsNull(g.c["Tanggal Pengembangan"])
    /\ \E rec \in RowSet(df_filtered) :
          IsNull(rec.c["Tanggal Input"]) /\ rec.id \notin Ids(gantt_plot_df)

\* the source cannot be parsed, or it is empty
NoInput == ~source.readable \/ IsEmpty(ReadExcel(source))

\* C13: when the source cannot be parsed or is empty, load_data returns an
\* empty collection and reports a notice without raising, and the page run
\* stops at the 'no data' notice: apply_filters and the views are never
\* executed.
C13_EmptyInputStopsAtNotice ==
    NoInput =>
        /\ pc \in {"start", "loaded", "widgets", "stopped"}
        /\ raised = "none"
        /\ pc # "start" =>
              /\ df = EmptyFrame
              /\ notice = IF source.readable THEN "warning" ELSE "error"
        /\ df_filtered = EmptyFrame
        /\ df_geo = EmptyFrame /\ map_df = EmptyFrame /\ sent = <<>>
        /\ gantt_plot_df = EmptyFrame /\ df_display = EmptyFrame

\* C13 witness: a run on a source that cannot be parsed has reported the
\* error and stopped at the 'no data' notice.
C13_Witness ==
    /\ ~source.readable
    /\ pc = "stopped"
    /\ notice = "error"
    /\ df = EmptyFrame

\* C14: a text-generation request that raises is reported inline for its
\* combination only: it never ends the page run, so the remaining
\* combinations are processed and the timeline, the table and the export
\* are produced.
C14_FailureContained ==
    pc = "crashed" => raised # "ExternalCallError"

\* C15: on a non-empty collection that lacks any of the expected columns, no
\* step of the page run raises because the column is absent.
C15_MissingColumnNeverRaises ==
    pc = "crashed" => raised \notin {"KeyError_Kematangan", "KeyError_Judul"}

\* the map has been prepared
AfterMap == pc \in {"map", "ai", "gantt", "done", "stopped_notitle"}

\* the records the map search is applied to, and that the region selectbox
\* of the map leaves: those of the ActiveView with both coordinates, of the
\* region selected when one is
Searched ==
    {rec \in RowSet(df_filtered) :
        /\ ~IsNull(rec.c["lat"]) /\ ~IsNull(rec.c["lon"])
        /\ (daerah_col(df_filtered) # "" /\ daerah_selected # T_All) =>
               rec.c[daerah_col(df_filtered)] = Str(daerah_selected)}

\* the columns the map search looks in
SearchedFields ==
    {"Judul Inovasi", "Urusan Utama", "Urusan lain yang beririsan"} \cap df_filtered.cols

\* the search text occurs in the text, letter case apart
OccursNoCase(keyword, text) == Occurs(StrLower(keyword), StrLower(text))

\* C16: with a non-empty search text, the map keeps a record iff one of its
\* searched fields is non-null and contains the search text as a
\* case-insensitive substring; a record whose searched fields are all null
\* is never kept.
C16_SearchKeepsOnlyNonNullMatches ==
    (AfterMap /\ {"lat", "lon"} \subseteq df_filtered.cols
        /\ StrStrip(search_keyword) # <<>> /\ SearchedFields # {}) =>
        \A rec \in Searched :
            rec \in RowSet(map_df) <=>
                \E col \in SearchedFields :
                    ~IsNull(rec.c[col]) /\ OccursNoCase(search_keyword, rec.c[col].s)

\* C17: when the user has selected a region other than 'All', the ActiveView
\* of that run, and so the timeline and the table derived from it, holds
\* only records of the selected region.
C17_ActiveViewOfSelectedRegion ==
    (AfterMap /\ daerah_col(df_filtered) # "" /\ daerah_selected # T_All) =>
        /\ \A rec \in RowSet(df_filtered) :
              rec.c[daerah_col(df_filtered)] = Str(daerah_selected)
        /\ \A rec \in RowSet(gantt_plot_df) \cup RowSet(df_display) :
              rec.c[daerah_col(df_filtered)] = Str(daerah_selected)

\* the category pass has run
AfterCategory ==
    pc \in {"category", "region", "stopped_region", "map", "stopped_notitle", "ai",
            "gantt", "done"}

\* C18: when the category selection is non-empty and without 'All', every
\* record of the ActiveView the projections read has a 'Kategori Admin OPD'
\* value in the selected set.
C18_CategoryOfViewInSelection ==
    (AfterCategory /\ Active(kategori_selected) /\ "Kategori Admin OPD" \in df_filtered.cols) =>
        \A rec \in RowSet(df_filtered) :
            /\ ~IsNull(rec.c["Kategori Admin OPD"])
            /\ rec.c["Kategori Admin OPD"].s \in kategori_selected

\* C19: apply_filters, the region resolution, the map preparation and the
\* Gantt derivation never change the collection df in place: once loaded, df
\* keeps its rows, columns and values through every step of the run; and
\* the region view, the map and the timeline leave the ActiveView they were
\* given as it was.
C19_NoInPlaceMutation ==
    [][ /\ pc # "start" => df' = df
        /\ pc \in {"category", "region", "ai"} => df_filtered' = df_filtered ]_vars

\* C19 witness: a run in which filtering removed a record and the region
\* view, the map and the timeline were all derived from the ActiveView.
C19_Witness ==
    /\ pc = "done"
    /\ Len(df_filtered.rows) >= 1
    /\ Len(df_filtered.rows) < Len(df.rows)
    /\ ~IsEmpty(df_geo) /\ "Daerah" \in df_geo.cols
    /\ ~IsEmpty(map_df)
    /\ ~IsEmpty(gantt_plot_df) /\ "Start" \in gantt_plot_df.cols
    /\ "Start" \notin df_filtered.cols

\* the requests a run sends with n titles selected and the slider at limit
ExpectedRequests(n, limit) ==
    IF n < 2 \/ n > 5 THEN 0
    ELSE IF limit < 2^n - n - 1 THEN limit ELSE 2^n - n - 1

\* the elements of a sequence
Elements(s) == {s[i] : i \in 1..Len(s)}

\* the collaboration section has been entered
InCollaboration ==
    \/ pc \in {"ai", "gantt", "done"}
    \/ pc = "crashed" /\ raised = "ExternalCallError"

\* C20: no request is sent when fewer than 2 or more than 5 titles are
\* selected; with n titles selected (2 <= n <= 5) and the slider at max_comb
\* the loop sends exactly min(max_comb, 2^n - n - 1) requests, one per
\* combination, each for a different combination of between 2 and n of the
\* selected titles, in order of increasing size.  While the loop runs, and
\* in a run a request ended, the requests sent are the first of these.
C20_RequestCount ==
    InCollaboration =>
        LET n == Len(selected_inovasi) IN
        /\ Len(sent) <= ExpectedRequests(n, max_comb)
        /\ pc \in {"gantt", "done"} => Len(sent) = ExpectedRequests(n, max_comb)
        /\ \A i \in 1..Len(sent) :
              /\ Len(sent[i]) >= 2 /\ Len(sent[i]) <= n
              /\ Elements(sent[i]) \subseteq Elements(selected_inovasi)
              /\ Cardinality(Elements(sent[i])) = Len(sent[i])
        /\ \A i, j \in 1..Len(sent) :
              i < j => /\ Elements(sent[i]) # Elements(sent[j])
                       /\ Len(sent[i]) <= Len(sent[j])

\* C20 witness: four titles selected and the slider at 10: the loop sent 10
\* of the 11 combinations, the six pairs and then the four triples.
C20_Witness ==
    /\ pc = "gantt"
    /\ Len(selected_inovasi) = 4
    /\ max_comb = 10
    /\ Len(sent) = 10
    /\ Len(sent[6]) = 2 /\ Len(sent[7]) = 3

---------------------------------------------------------------------------
(* Run completion: claim C21.                                              *)

\* apply_filters has returned an ActiveView with records
ViewNonEmpty == pc = "filtered" /\ Len(df_filtered.rows) > 0

\* the run was ended by an exception of the summary table or of a request to
\* the text service, neither of them a stop of the region view or of the
\* collaboration section
EndedByOtherFailure == raised \in {"KeyError_Kematangan", "ExternalCallError"}

\* C21: every page run whose ActiveView is non-empty reaches the timeline
\* and then the table and the export at the end of the script, also when no
\* record of the view has valid coordinates and when the title column is
\* absent: no stop of the region view or of the collaboration section ends
\* the run before them.  (A run that an exception of the summary table or of
\* a request ended is left aside.)
C21_RunCompletes == ViewNonEmpty ~> (pc = "done" \/ EndedByOtherFailure)

=============================================================================
